---- MODULE Spec2Model ----
(***************************************************************************)
(* Model of pkg/routesum/rstrie: RSTrie, a radix-2 trie of bit slices that *)
(* keeps a summary of the routes inserted into it.                         *)
(*                                                                         *)
(* A bit slice is a sequence over {0, 1}; Go's 0-based index i is the      *)
(* TLA+ index i + 1.  A *node is an index into the sequence `nodes` (the   *)
(* heap), 0 is the nil pointer.  A node's children field is <<>> for a nil *)
(* *[2]*node and a pair of pointers otherwise.                             *)
(***************************************************************************)
EXTENDS Integers, Sequences, FiniteSets, TLC

VARIABLES
    root,       \* RSTrie.root: pointer to the root node, Nil for the empty trie
    nodes,      \* the heap: the node structs reachable from root
    inserted,   \* history: the set of routes passed to InsertRoute so far
    panicked,   \* TRUE once a call ended in a run-time panic
    ret,        \* what the last call returned
    rs,         \* RouteSum: the tries rs.ipv4 and rs.ipv6
    accepted    \* history: family and bits of every route InsertFromString inserted

vars == <<root, nodes, inserted, panicked, ret, rs, accepted>>

\* Bounds of the model.
MaxLen == 3         \* longest route the general specification inserts
MaxInserts == 3     \* number of distinct routes the general specification inserts
TileLen == 3        \* length of the routes the tiling specification inserts
AddrBits == 1       \* leading bits in which the addresses given as text differ
MaxAccepted == 2    \* number of distinct routes InsertFromString inserts

Nil == 0
Bit == {0, 1}

\* All bit slices of length lo..hi.
BitSlices(lo, hi) == UNION {[1..k -> Bit] : k \in lo..hi}

\* The routes InsertRoute is called with: non-empty, at most MaxLen bits.
Routes == BitSlices(1, MaxLen)

\* The routes of one length that the tiling specification inserts.
TileRoutes == BitSlices(TileLen, TileLen)

-----------------------------------------------------------------------------
(* Helpers of rstrie.go *)

min(a, b) == IF a < b THEN a ELSE b

\* Mutant of HasPrefix: the two arguments taken in the wrong order.
HasPrefixSwapped(s, prefix) ==
    /\ Len(prefix) >= Len(s)
    /\ SubSeq(prefix, 1, Len(s)) = s

\* bytes.HasPrefix(s, prefix)
HasPrefix(s, prefix) ==
    /\ Len(s) >= Len(prefix)
    /\ SubSeq(s, 1, Len(prefix)) = prefix

\* The loop of commonPrefixLen, from Go index i on.
RECURSIVE commonPrefixLoop(_, _, _, _)
commonPrefixLoop(a, b, i, maxLen) ==
    IF i < maxLen /\ a[i + 1] = b[i + 1]
    THEN commonPrefixLoop(a, b, i + 1, maxLen)
    ELSE i

\* Mutant of commonPrefixLen: the loop runs to maxLen without comparing bits.
commonPrefixLenNoBreak(a, b) == min(Len(a), Len(b))

commonPrefixLen(a, b) == commonPrefixLoop(a, b, 0, min(Len(a), Len(b)))

\* s[from:] of Go
SliceFrom(s, from) == SubSeq(s, from + 1, Len(s))

\* s[:to] of Go
SliceTo(s, to) == SubSeq(s, 1, to)

\* &node{bits: b, children: nil}
LeafNode(b) == [bits |-> b, children |-> <<>>]

isLeaf(n) == n.children = <<>>

\* A heap together with the trie's root and whether the call panicked.
Result(ns, rt, p) == [nodes |-> ns, root |-> rt, panic |-> p]

-----------------------------------------------------------------------------
(* node.childrenAreCompleteSubtrie and simplifyVisitedSubtries *)

\* childrenAreCompleteSubtrie dereferences a nil child: children[0] is always
\* read, children[1] only when children[0] is a leaf (|| short-circuits).
completeSubtriePanics(ns, n) ==
    /\ ~isLeaf(ns[n])
    /\ \/ ns[n].children[1] = Nil
       \/ /\ isLeaf(ns[ns[n].children[1]])
          /\ ns[n].children[2] = Nil

\* Mutant of childrenAreCompleteSubtrie: the lengths of the children's labels
\* are not looked at.
childrenAreCompleteSubtrieAnyLength(ns, n) ==
    IF isLeaf(ns[n]) THEN FALSE
    ELSE IF ~isLeaf(ns[ns[n].children[1]]) \/ ~isLeaf(ns[ns[n].children[2]]) THEN FALSE
    ELSE TRUE

childrenAreCompleteSubtrie(ns, n) ==
    IF isLeaf(ns[n]) THEN FALSE
    ELSE IF ~isLeaf(ns[ns[n].children[1]]) \/ ~isLeaf(ns[ns[n].children[2]]) THEN FALSE
    ELSE IF Len(ns[ns[n].children[1]].bits) # 1 \/ Len(ns[ns[n].children[2]].bits) # 1 THEN FALSE
    ELSE TRUE

\* Mutant of simplifyLoop: the pass stops after the first subtrie it collapses.
simplifyLoopOneLevel(ns, rt, visited, i) ==
    IF i < 0 THEN Result(ns, rt, FALSE)
    ELSE IF isLeaf(ns[visited[i + 1]]) THEN Result(ns, rt, FALSE)
    ELSE IF completeSubtriePanics(ns, visited[i + 1]) THEN Result(ns, rt, TRUE)
    ELSE IF ~childrenAreCompleteSubtrie(ns, visited[i + 1]) THEN Result(ns, rt, FALSE)
    ELSE Result([ns EXCEPT ![visited[i + 1]].children = <<>>], rt, FALSE)

\* The loop of simplifyVisitedSubtries at Go index i (i = -1: the loop is over).
RECURSIVE simplifyLoop(_, _, _, _)
simplifyLoop(ns, rt, visited, i) ==
    IF i < 0 THEN Result(ns, rt, FALSE)
    ELSE IF isLeaf(ns[visited[i + 1]]) THEN Result(ns, rt, FALSE)
    ELSE IF completeSubtriePanics(ns, visited[i + 1]) THEN Result(ns, rt, TRUE)
    ELSE IF ~childrenAreCompleteSubtrie(ns, visited[i + 1]) THEN Result(ns, rt, FALSE)
    ELSE simplifyLoop([ns EXCEPT ![visited[i + 1]].children = <<>>], rt, visited, i - 1)

simplifyVisitedSubtries(ns, rt, visited) ==
    simplifyLoop(ns, rt, visited, Len(visited) - 1)

-----------------------------------------------------------------------------
(* splitNodeForRoute *)

\* The two nodes splitNodeForRoute allocates.
routeNodeOf(ns) == Len(ns) + 1
newNodeOf(ns) == Len(ns) + 2

\* splitNodeForRoute indexes bit 0 of an empty slice: routeNode.bits[0] or
\* oldNode.bits[0].
splitPanics(ns, oldNode, routeBits) ==
    LET commonBitsLen == commonPrefixLen(ns[oldNode].bits, routeBits)
    IN  \/ SliceFrom(routeBits, commonBitsLen) = <<>>
        \/ SliceFrom(ns[oldNode].bits, commonBitsLen) = <<>>

\* Mutant of splitNodeForRoute: the route node's slot is taken from the first
\* bit of routeBits instead of the first bit after the common prefix.
splitNodeForRouteWrongSlot(ns, oldNode, routeBits) ==
    LET commonBitsLen == commonPrefixLen(ns[oldNode].bits, routeBits)
        commonBits == SliceTo(ns[oldNode].bits, commonBitsLen)
        routeNode == LeafNode(SliceFrom(routeBits, commonBitsLen))
        oldBits == SliceFrom(ns[oldNode].bits, commonBitsLen)
        slots0 == <<Nil, Nil>>
        slots1 == [slots0 EXCEPT ![routeBits[1] + 1] = routeNodeOf(ns)]
        slots2 == [slots1 EXCEPT ![oldBits[1] + 1] = oldNode]
        newNode == [bits |-> commonBits, children |-> slots2]
    IN  [ns EXCEPT ![oldNode].bits = oldBits] \o <<routeNode, newNode>>

\* Mutant of splitNodeForRoute: the route node gets all of routeBits, the
\* common prefix included.
splitNodeForRouteWholeRoute(ns, oldNode, routeBits) ==
    LET commonBitsLen == commonPrefixLen(ns[oldNode].bits, routeBits)
        commonBits == SliceTo(ns[oldNode].bits, commonBitsLen)
        routeNode == LeafNode(routeBits)
        oldBits == SliceFrom(ns[oldNode].bits, commonBitsLen)
        slots0 == <<Nil, Nil>>
        slots1 == [slots0 EXCEPT ![routeBits[commonBitsLen + 1] + 1] = routeNodeOf(ns)]
        slots2 == [slots1 EXCEPT ![oldBits[1] + 1] = oldNode]
        newNode == [bits |-> commonBits, children |-> slots2]
    IN  [ns EXCEPT ![oldNode].bits = oldBits] \o <<routeNode, newNode>>

\* The heap after splitNodeForRoute(oldNode, routeBits); the node it returns is
\* newNodeOf(ns).  The two slot assignments happen in the code's order, so the
\* second wins if both name one slot.
splitNodeForRoute(ns, oldNode, routeBits) ==
    LET commonBitsLen == commonPrefixLen(ns[oldNode].bits, routeBits)
        commonBits == SliceTo(ns[oldNode].bits, commonBitsLen)
        routeNode == LeafNode(SliceFrom(routeBits, commonBitsLen))
        oldBits == SliceFrom(ns[oldNode].bits, commonBitsLen)
        slots0 == <<Nil, Nil>>
        slots1 == [slots0 EXCEPT ![routeNode.bits[1] + 1] = routeNodeOf(ns)]
        slots2 == [slots1 EXCEPT ![oldBits[1] + 1] = oldNode]
        newNode == [bits |-> commonBits, children |-> slots2]
    IN  [ns EXCEPT ![oldNode].bits = oldBits] \o <<routeNode, newNode>>

-----------------------------------------------------------------------------
(* RSTrie.InsertRoute *)

\* Mutant of coverNode: the children are dropped but the label is not cut.
coverNodeKeepsLabel(ns, rt, curNode, remainingRouteBits) ==
    Result([ns EXCEPT ![curNode].children = <<>>], rt, FALSE)

\* Mutant of coverNode: the label is cut but the children are not dropped.
coverNodeKeepsChildren(ns, rt, curNode, remainingRouteBits) ==
    Result([ns EXCEPT ![curNode].bits = remainingRouteBits], rt, FALSE)

\* "Does the requested route cover the current node? If so, update the current
\* node": the label is cut to the remaining route bits, the children dropped,
\* and InsertRoute returns.
coverNode(ns, rt, curNode, remainingRouteBits) ==
    Result([ns EXCEPT ![curNode] = LeafNode(remainingRouteBits)], rt, FALSE)

\* Mutant of splitIsCompleteSubtrie: the common prefix is not looked at.
splitIsCompleteSubtrieAnyPrefix(ns, curNode, remainingRouteBits) ==
    /\ isLeaf(ns[curNode])
    /\ Len(ns[curNode].bits) = Len(remainingRouteBits)

\* Mutant of splitIsCompleteSubtrie: the node is not required to be a leaf.
splitIsCompleteSubtrieNoLeafCheck(ns, curNode, remainingRouteBits) ==
    /\ Len(ns[curNode].bits) = Len(remainingRouteBits)
    /\ commonPrefixLen(ns[curNode].bits, remainingRouteBits) = Len(ns[curNode].bits) - 1

\* The condition of the single-bit-divergence optimization.
splitIsCompleteSubtrie(ns, curNode, remainingRouteBits) ==
    /\ isLeaf(ns[curNode])
    /\ Len(ns[curNode].bits) = Len(remainingRouteBits)
    /\ commonPrefixLen(ns[curNode].bits, remainingRouteBits) = Len(ns[curNode].bits) - 1

\* Mutant of shortenNode: the label is cut one bit too far.
shortenNodeTwoBits(ns, curNode) ==
    [ns EXCEPT ![curNode] = LeafNode(SliceTo(ns[curNode].bits, Len(ns[curNode].bits) - 2))]

\* The optimization itself: the current node loses its last bit.
shortenNode(ns, curNode) ==
    [ns EXCEPT ![curNode] = LeafNode(SliceTo(ns[curNode].bits, Len(ns[curNode].bits) - 1))]

\* Mutant of attachNewNode: the new node always goes into slot 0.
attachNewNodeSlotZero(ns, rt, visited, newNode) ==
    IF Len(visited) = 0 THEN Result(ns, newNode, FALSE)
    ELSE IF ns[newNode].bits = <<>> \/ isLeaf(ns[visited[Len(visited)]])
    THEN Result(ns, rt, TRUE)
    ELSE Result([ns EXCEPT ![visited[Len(visited)]].children[1] = newNode], rt, FALSE)

\* Hooking the node splitNodeForRoute returned into the trie: as the root, or
\* in the slot of the last visited node that newNode.bits[0] names.
attachNewNode(ns, rt, visited, newNode) ==
    IF Len(visited) = 0 THEN Result(ns, newNode, FALSE)
    ELSE IF ns[newNode].bits = <<>> \/ isLeaf(ns[visited[Len(visited)]])
    THEN Result(ns, rt, TRUE)
    ELSE Result([ns EXCEPT ![visited[Len(visited)]].children[ns[newNode].bits[1] + 1] = newNode],
                rt, FALSE)

\* "Otherwise the requested route diverges from the current node."
divergeNode(ns, rt, visited, curNode, remainingRouteBits) ==
    IF splitIsCompleteSubtrie(ns, curNode, remainingRouteBits)
    THEN simplifyVisitedSubtries(shortenNode(ns, curNode), rt, visited)
    ELSE IF splitPanics(ns, curNode, remainingRouteBits)
    THEN Result(ns, rt, TRUE)
    ELSE LET split == splitNodeForRoute(ns, curNode, remainingRouteBits)
             att == attachNewNode(split, rt, visited, newNodeOf(ns))
         IN  IF att.panic THEN att
             ELSE simplifyVisitedSubtries(att.nodes, att.root, visited)

\* One iteration of the for loop of InsertRoute at curNode.
RECURSIVE insertLoop(_, _, _, _, _)
insertLoop(ns, rt, visited, curNode, remainingRouteBits) ==
    LET remainingRouteBitsLen == Len(remainingRouteBits)
        curNodeBitsLen == Len(ns[curNode].bits)
    IN  IF /\ remainingRouteBitsLen <= curNodeBitsLen
           /\ HasPrefix(ns[curNode].bits, remainingRouteBits)
        THEN coverNode(ns, rt, curNode, remainingRouteBits)
        ELSE IF /\ curNodeBitsLen <= remainingRouteBitsLen
                /\ HasPrefix(remainingRouteBits, ns[curNode].bits)
        THEN IF isLeaf(ns[curNode])
             THEN Result(ns, rt, FALSE)
             ELSE LET rest == SliceFrom(remainingRouteBits, curNodeBitsLen)
                  IN  IF rest = <<>>
                      THEN Result(ns, rt, TRUE)     \* remainingRouteBits[0] out of range
                      ELSE IF ns[curNode].children[rest[1] + 1] = Nil
                      THEN Result(ns, rt, TRUE)     \* len(curNode.bits) of a nil curNode
                      ELSE insertLoop(ns, rt, Append(visited, curNode),
                                      ns[curNode].children[rest[1] + 1], rest)
        ELSE divergeNode(ns, rt, visited, curNode, remainingRouteBits)

InsertRoute(ns, rt, routeBits) ==
    IF rt = Nil
    THEN Result(<<LeafNode(routeBits)>>, 1, FALSE)
    ELSE insertLoop(ns, rt, <<>>, rt, routeBits)

-----------------------------------------------------------------------------
(* The heap up to the addresses of its nodes.  Nothing in the package compares
   or prints a *node, and a node no pointer leads to is the garbage collector's:
   the state keeps the nodes reachable from root, numbered in preorder. *)

\* The subtree at n, moved to the addresses base + 1, base + 2, ... in preorder.
RECURSIVE subtrie(_, _, _)
subtrie(ns, n, base) ==
    IF n = Nil THEN <<>>
    ELSE IF isLeaf(ns[n]) THEN <<ns[n]>>
    ELSE LET child0 == subtrie(ns, ns[n].children[1], base + 1)
             child1 == subtrie(ns, ns[n].children[2], base + 1 + Len(child0))
         IN  <<[bits |-> ns[n].bits,
                children |-> <<IF child0 = <<>> THEN Nil ELSE base + 2,
                               IF child1 = <<>> THEN Nil ELSE base + 2 + Len(child0)>>]>>
                 \o child0 \o child1

Collected(res) ==
    Result(subtrie(res.nodes, res.root, 0), IF res.root = Nil THEN Nil ELSE 1, res.panic)

-----------------------------------------------------------------------------
(* RSTrie.Contents *)

\* traversalStep{n, precedingRouteBits}
traversalStep(n, precedingRouteBits) == [n |-> n, precedingRouteBits |-> precedingRouteBits]

\* Mutant of contentsLoop: internal nodes are emitted as well as leaves.
RECURSIVE contentsLoopEmitsAll(_, _, _)
contentsLoopEmitsAll(ns, queue, contents) ==
    IF queue = <<>> THEN [contents |-> contents, panic |-> FALSE]
    ELSE IF Head(queue).n = Nil THEN [contents |-> <<>>, panic |-> TRUE]
    ELSE LET step == Head(queue)
             stepRouteBits == step.precedingRouteBits \o ns[step.n].bits
         IN  IF isLeaf(ns[step.n])
             THEN contentsLoopEmitsAll(ns, Tail(queue), Append(contents, stepRouteBits))
             ELSE contentsLoopEmitsAll(ns,
                               <<traversalStep(ns[step.n].children[1], stepRouteBits),
                                 traversalStep(ns[step.n].children[2], stepRouteBits)>>
                                   \o Tail(queue),
                               Append(contents, stepRouteBits))

\* Mutant of contentsLoop: a leaf is emitted with its own label only.
RECURSIVE contentsLoopOwnLabel(_, _, _)
contentsLoopOwnLabel(ns, queue, contents) ==
    IF queue = <<>> THEN [contents |-> contents, panic |-> FALSE]
    ELSE IF Head(queue).n = Nil THEN [contents |-> <<>>, panic |-> TRUE]
    ELSE LET step == Head(queue)
             stepRouteBits == step.precedingRouteBits \o ns[step.n].bits
         IN  IF isLeaf(ns[step.n])
             THEN contentsLoopOwnLabel(ns, Tail(queue), Append(contents, ns[step.n].bits))
             ELSE contentsLoopOwnLabel(ns,
                               <<traversalStep(ns[step.n].children[1], stepRouteBits),
                                 traversalStep(ns[step.n].children[2], stepRouteBits)>>
                                   \o Tail(queue),
                               contents)

\* Mutant of contentsLoop: the two children go to the back of the queue.
RECURSIVE contentsLoopBreadthFirst(_, _, _)
contentsLoopBreadthFirst(ns, queue, contents) ==
    IF queue = <<>> THEN [contents |-> contents, panic |-> FALSE]
    ELSE IF Head(queue).n = Nil THEN [contents |-> <<>>, panic |-> TRUE]
    ELSE LET step == Head(queue)
             stepRouteBits == step.precedingRouteBits \o ns[step.n].bits
         IN  IF isLeaf(ns[step.n])
             THEN contentsLoopBreadthFirst(ns, Tail(queue), Append(contents, stepRouteBits))
             ELSE contentsLoopBreadthFirst(ns,
                               Tail(queue) \o
                                 <<traversalStep(ns[step.n].children[1], stepRouteBits),
                                   traversalStep(ns[step.n].children[2], stepRouteBits)>>,
                               contents)

\* The loop of Contents: the head of the queue is taken, a leaf is emitted, the
\* two children of an internal node are put in front of the queue.  Reading
\* the bits of a nil child panics, and the call then returns nothing.
RECURSIVE contentsLoop(_, _, _)
contentsLoop(ns, queue, contents) ==
    IF queue = <<>> THEN [contents |-> contents, panic |-> FALSE]
    ELSE IF Head(queue).n = Nil THEN [contents |-> <<>>, panic |-> TRUE]
    ELSE LET step == Head(queue)
             stepRouteBits == step.precedingRouteBits \o ns[step.n].bits
         IN  IF isLeaf(ns[step.n])
             THEN contentsLoop(ns, Tail(queue), Append(contents, stepRouteBits))
             ELSE contentsLoop(ns,
                               <<traversalStep(ns[step.n].children[1], stepRouteBits),
                                 traversalStep(ns[step.n].children[2], stepRouteBits)>>
                                   \o Tail(queue),
                               contents)

\* The call t.Contents(): what it returns and whether it panics.
ContentsCall(ns, rt) ==
    IF rt = Nil THEN [contents |-> <<>>, panic |-> FALSE]
    ELSE contentsLoop(ns, <<traversalStep(rt, <<>>)>>, <<>>)

Contents(ns, rt) == ContentsCall(ns, rt).contents

-----------------------------------------------------------------------------
(* RouteSum: the two tries and InsertFromString *)

\* Bytes of an IPv4 and of an IPv6 address.
V4Bytes == 4
V6Bytes == 16

\* An RSTrie value: NewRSTrie() is EmptyTrie.
Trie(ns, rt) == [nodes |-> ns, root |-> rt]
EmptyTrie == Trie(<<>>, Nil)

\* NewRouteSum()
NewRouteSum == [ipv4 |-> EmptyTrie, ipv6 |-> EmptyTrie]

\* n zero bytes.
ZeroBytes(n) == [i \in 1..n |-> 0]

\* The addresses the texts name: the first AddrBits bits vary, the rest is 0.
AddrsOf(nbytes) ==
    {<<v * 2^(8 - AddrBits)>> \o ZeroBytes(nbytes - 1) : v \in 0..(2^AddrBits - 1)}

\* The zone "a" of an IPv6 address text such as fe80::1%a, as bytes.
ZoneA == <<97>>

\* The texts given to InsertFromString, by what netip makes of them:
\*   ok = FALSE: ParsePrefix (slash) or ParseAddr (no slash) returns an error;
\*   otherwise the address parsed (family, bytes, zone) and, with a slash, the
\*   prefix length.  ParsePrefix takes no zone; a host has plen = -1.
Inputs ==
    {[slash |-> sl, ok |-> FALSE, is4 |-> FALSE, addr |-> <<>>, zone |-> <<>>, plen |-> -1]
        : sl \in BOOLEAN}
    \cup {[slash |-> TRUE, ok |-> TRUE, is4 |-> TRUE, addr |-> a, zone |-> <<>>, plen |-> n]
        : a \in AddrsOf(V4Bytes), n \in 0..AddrBits}
    \cup {[slash |-> TRUE, ok |-> TRUE, is4 |-> FALSE, addr |-> a, zone |-> <<>>, plen |-> n]
        : a \in AddrsOf(V6Bytes), n \in 0..AddrBits}
    \cup {[slash |-> FALSE, ok |-> TRUE, is4 |-> TRUE, addr |-> a, zone |-> <<>>, plen |-> -1]
        : a \in AddrsOf(V4Bytes)}
    \cup {[slash |-> FALSE, ok |-> TRUE, is4 |-> FALSE, addr |-> a, zone |-> <<>>, plen |-> -1]
        : a \in AddrsOf(V6Bytes)}
    \cup {[slash |-> FALSE, ok |-> TRUE, is4 |-> FALSE, addr |-> ZeroBytes(V6Bytes),
           zone |-> ZoneA, plen |-> -1]}

\* netip.Addr.MarshalBinary: the 4-byte form of an IPv4 address, the 16-byte
\* form of an IPv6 address with its zone appended.
MarshalBinary(s) == s.addr \o s.zone

\* The 8 bits of a byte, most significant first.
ByteBits(b) == [i \in 1..8 |-> (b \div 2^(8 - i)) % 2]

\* bitslice.NewFromBytes: 8 bits a byte; it fails on an empty buffer.
RECURSIVE BytesToBits(_)
BytesToBits(bytes) ==
    IF bytes = <<>> THEN <<>> ELSE ByteBits(Head(bytes)) \o BytesToBits(Tail(bytes))

NewFromBytes(bytes) ==
    IF bytes = <<>> THEN [bits |-> <<>>, err |-> "express as bits"]
    ELSE [bits |-> BytesToBits(bytes), err |-> "nil"]

\* ipBitsForIPPrefix(ipPrefix)
ipBitsForIPPrefix(s) ==
    LET conv == NewFromBytes(MarshalBinary(s))
    IN  IF conv.err # "nil" THEN conv
        ELSE [bits |-> SliceTo(conv.bits, s.plen), err |-> "nil"]

\* ipBitsForIP(ip)
ipBitsForIP(s) == NewFromBytes(MarshalBinary(s))

\* The first half of InsertFromString: the text parsed and turned into bits,
\* or the error it returns.
parseToBits(s) ==
    IF s.slash
    THEN IF ~s.ok THEN [bits |-> <<>>, err |-> "parse network"]
         ELSE ipBitsForIPPrefix(s)
    ELSE IF ~s.ok THEN [bits |-> <<>>, err |-> "parse IP"]
         ELSE ipBitsForIP(s)

\* Mutant of Is4: the family is guessed from the number of bits.
Is4ByLength(s, ipBits) == Len(ipBits) <= 8 * V4Bytes

\* ip.Is4() of the parsed address.
Is4(s, ipBits) == s.is4

\* t.InsertRoute(ipBits) on a trie value; the heap is kept up to addresses.
InsertInto(t, ipBits) == Collected(InsertRoute(t.nodes, t.root, ipBits))

\* The second half of InsertFromString: the route goes to one of the tries.
insertByFamily(rsv, s, ipBits) ==
    IF Is4(s, ipBits)
    THEN LET res == InsertInto(rsv.ipv4, ipBits)
         IN  [rs |-> [rsv EXCEPT !.ipv4 = Trie(res.nodes, res.root)],
              err |-> "nil", panic |-> res.panic]
    ELSE LET res == InsertInto(rsv.ipv6, ipBits)
         IN  [rs |-> [rsv EXCEPT !.ipv6 = Trie(res.nodes, res.root)],
              err |-> "nil", panic |-> res.panic]

\* Mutant of InsertFromString: a failed parse is not returned at once; the
\* zero Addr and the nil bits go on to the insert, then the error is returned.
InsertFromStringLateError(rsv, s) ==
    LET parsed == parseToBits(s)
        done == insertByFamily(rsv, s, parsed.bits)
    IN  [done EXCEPT !.err = parsed.err]

\* rs.InsertFromString(s): the RouteSum after the call, the error returned
\* ("nil" for none), and whether the call panicked.
InsertFromString(rsv, s) ==
    LET parsed == parseToBits(s)
    IN  IF parsed.err # "nil"
        THEN [rs |-> rsv, err |-> parsed.err, panic |-> FALSE]
        ELSE insertByFamily(rsv, s, parsed.bits)

-----------------------------------------------------------------------------
(* The state machine *)

\* NewRSTrie()
Init ==
    /\ root = Nil
    /\ nodes = <<>>
    /\ inserted = {}
    /\ panicked = FALSE
    /\ ret = [op |-> "NewRSTrie"]
    /\ rs = NewRouteSum
    /\ accepted = {}

\* A call t.InsertRoute(routeBits).
Insert(routeBits) ==
    /\ ~panicked
    /\ LET res == Collected(InsertRoute(nodes, root, routeBits))
       IN  /\ nodes' = res.nodes
           /\ root' = res.root
           /\ panicked' = res.panic
    /\ inserted' = inserted \cup {routeBits}
    /\ ret' = [op |-> "InsertRoute"]
    /\ UNCHANGED <<rs, accepted>>

\* The general specification: any routes of 1..MaxLen bits, at most MaxInserts
\* distinct ones, each any number of times.
InsertAny ==
    \E routeBits \in Routes :
        /\ Cardinality(inserted \cup {routeBits}) <= MaxInserts
        /\ Insert(routeBits)

Next == InsertAny

Spec == Init /\ [][Next]_vars

\* The tiling specification: the routes of exactly TileLen bits, each once, in
\* any order.
InsertTile ==
    \E routeBits \in TileRoutes \ inserted : Insert(routeBits)

NextTiling == InsertTile

SpecTiling == Init /\ [][NextTiling]_vars

\* A call t.Contents(): the trie is only read.
ContentsStep ==
    /\ ~panicked
    /\ LET call == ContentsCall(nodes, root)
       IN  /\ ret' = [op |-> "Contents", contents |-> call.contents]
           /\ panicked' = call.panic
    /\ UNCHANGED <<root, nodes, inserted, rs, accepted>>

\* The specification with Contents() calls between the inserts.
NextContents == InsertAny \/ ContentsStep

SpecContents == Init /\ [][NextContents]_vars

\* InsertRoute without the single-bit-divergence optimization: a diverging
\* node is always split and the new node hooked in, and the collapse pass then
\* starts at the new node before it goes up the visited nodes.
divergeNodeGeneral(ns, rt, visited, curNode, remainingRouteBits) ==
    IF splitPanics(ns, curNode, remainingRouteBits)
    THEN Result(ns, rt, TRUE)
    ELSE LET split == splitNodeForRoute(ns, curNode, remainingRouteBits)
             att == attachNewNode(split, rt, visited, newNodeOf(ns))
         IN  IF att.panic THEN att
             ELSE simplifyVisitedSubtries(att.nodes, att.root,
                                          Append(visited, newNodeOf(ns)))

RECURSIVE insertLoopGeneral(_, _, _, _, _)
insertLoopGeneral(ns, rt, visited, curNode, remainingRouteBits) ==
    LET remainingRouteBitsLen == Len(remainingRouteBits)
        curNodeBitsLen == Len(ns[curNode].bits)
    IN  IF /\ remainingRouteBitsLen <= curNodeBitsLen
           /\ HasPrefix(ns[curNode].bits, remainingRouteBits)
        THEN coverNode(ns, rt, curNode, remainingRouteBits)
        ELSE IF /\ curNodeBitsLen <= remainingRouteBitsLen
                /\ HasPrefix(remainingRouteBits, ns[curNode].bits)
        THEN IF isLeaf(ns[curNode])
             THEN Result(ns, rt, FALSE)
             ELSE LET rest == SliceFrom(remainingRouteBits, curNodeBitsLen)
                  IN  IF rest = <<>>
                      THEN Result(ns, rt, TRUE)
                      ELSE IF ns[curNode].children[rest[1] + 1] = Nil
                      THEN Result(ns, rt, TRUE)
                      ELSE insertLoopGeneral(ns, rt, Append(visited, curNode),
                                             ns[curNode].children[rest[1] + 1], rest)
        ELSE divergeNodeGeneral(ns, rt, visited, curNode, remainingRouteBits)

InsertRouteGeneral(ns, rt, routeBits) ==
    IF rt = Nil
    THEN Result(<<LeafNode(routeBits)>>, 1, FALSE)
    ELSE insertLoopGeneral(ns, rt, <<>>, rt, routeBits)

\* A call of InsertRoute in the build without the optimization.
InsertGeneral(routeBits) ==
    /\ ~panicked
    /\ LET res == Collected(InsertRouteGeneral(nodes, root, routeBits))
       IN  /\ nodes' = res.nodes
           /\ root' = res.root
           /\ panicked' = res.panic
    /\ inserted' = inserted \cup {routeBits}
    /\ ret' = [op |-> "InsertRoute"]
    /\ UNCHANGED <<rs, accepted>>

InsertAnyGeneral ==
    \E routeBits \in Routes :
        /\ Cardinality(inserted \cup {routeBits}) <= MaxInserts
        /\ InsertGeneral(routeBits)

\* The specification of the build without the optimization.
NextGeneral == InsertAnyGeneral

SpecGeneral == Init /\ [][NextGeneral]_vars

\* What a text adds to the history when it is inserted.
Accepted(s) == [is4 |-> s.is4, bits |-> parseToBits(s).bits]

\* A call rs.InsertFromString(s) with any of the texts; at most MaxAccepted
\* distinct routes are inserted.
InsertFromStringStep ==
    \E s \in Inputs :
        LET hist == IF parseToBits(s).err = "nil" THEN accepted \cup {Accepted(s)}
                    ELSE accepted
            call == InsertFromString(rs, s)
        IN  /\ ~panicked
            /\ Cardinality(hist) <= MaxAccepted
            /\ rs' = call.rs
            /\ ret' = [op |-> "InsertFromString", err |-> call.err]
            /\ panicked' = call.panic
            /\ accepted' = hist
            /\ UNCHANGED <<root, nodes, inserted>>

NextRouteSum == InsertFromStringStep

SpecRouteSum == Init /\ [][NextRouteSum]_vars

-----------------------------------------------------------------------------
(* Vocabulary of the properties *)

\* Contents() of the current trie, as the sequence returned and as a set.
ContentsNow == Contents(nodes, root)
ContentsSet == {ContentsNow[i] : i \in 1..Len(ContentsNow)}

\* The entries of a sequence of bit slices, as a set.
Entries(seq) == {seq[i] : i \in 1..Len(seq)}

\* p is a prefix of s (or equal to it); p is a proper prefix of s.
IsPrefix(p, s) == Len(p) <= Len(s) /\ \A i \in 1..Len(p) : p[i] = s[i]
IsProperPrefix(p, s) == Len(p) < Len(s) /\ IsPrefix(p, s)

\* The full-width addresses, and whether a set of keys covers one.
Addresses == BitSlices(MaxLen, MaxLen)
Covers(keys, a) == \E k \in keys : IsPrefix(k, a)

\* Two keys P+0 and P+1.
Siblings(a, b) ==
    /\ Len(a) = Len(b)
    /\ Len(a) >= 1
    /\ a # b
    /\ \A i \in 1..(Len(a) - 1) : a[i] = b[i]

PrefixFree(keys) == \A a, b \in keys : a # b => ~IsPrefix(a, b)
NoSiblingPair(keys) == \A a, b \in keys : ~Siblings(a, b)
SameAddresses(keys1, keys2) == \A a \in Addresses : Covers(keys1, a) <=> Covers(keys2, a)

\* The trie built from the empty trie by inserting the routes of a sequence in
\* order, and the set Contents() then returns.
RECURSIVE InsertAll(_, _)
InsertAll(res, seq) ==
    IF seq = <<>> THEN res
    ELSE InsertAll(InsertRoute(res.nodes, res.root, Head(seq)), Tail(seq))

ContentsAfter(seq) ==
    LET res == InsertAll(Result(<<>>, Nil, FALSE), seq)
    IN  Entries(Contents(res.nodes, res.root))

\* The orders in which the routes of a set can be inserted, each once.
Orders(S) ==
    {seq \in [1..Cardinality(S) -> S] : \A i, j \in 1..Cardinality(S) : i # j => seq[i] # seq[j]}

-----------------------------------------------------------------------------
(* Properties *)

\* C1: after any sequence of InsertRoute calls, Contents() is the minimal
\* covering set of the routes inserted so far: it covers the same addresses,
\* no key is a prefix of another, and no two keys P+0 and P+1 are both present.
C1_MinimalCoveringSet ==
    /\ SameAddresses(ContentsSet, inserted)
    /\ PrefixFree(ContentsSet)
    /\ NoSiblingPair(ContentsSet)

\* C2: order independence: every two orders of inserting the same set of
\* routes into an empty trie give the same set of keys from Contents().
C2_OrderIndependence ==
    \A o1, o2 \in Orders(inserted) : ContentsAfter(o1) = ContentsAfter(o2)

\* C3: address-space preservation: a full-width address has an entry of
\* Contents() as a prefix iff it has an inserted route as a prefix.
C3_AddressSpacePreserved ==
    SameAddresses(ContentsSet, inserted)

\* C3 witness: the trie both merged two routes into a key that was never
\* inserted and dropped a route that a broader key covers.
C3_Witness ==
    /\ \E k \in ContentsSet : k \notin inserted
    /\ \E r \in inserted : \E k \in ContentsSet : IsProperPrefix(k, r)
    /\ Cardinality(ContentsSet) >= 2

\* C4: minimality: no entry of Contents() is a prefix of another entry, and
\* no entry appears twice.
C4_PrefixFree ==
    \A i, j \in 1..Len(ContentsNow) :
        i # j => ~IsPrefix(ContentsNow[i], ContentsNow[j])

\* C4 witness: three entries of three different lengths.
C4_Witness ==
    /\ Len(ContentsNow) = 3
    /\ Cardinality({Len(ContentsNow[i]) : i \in 1..3}) = 3

\* C5: every node has no children or exactly two non-nil children.
C5_ZeroOrTwoChildren ==
    \A n \in 1..Len(nodes) :
        \/ nodes[n].children = <<>>
        \/ /\ Len(nodes[n].children) = 2
           /\ nodes[n].children[1] # Nil
           /\ nodes[n].children[2] # Nil

\* C5 witness: an internal node below an internal root (two splits happened).
C5_Witness ==
    /\ root # Nil
    /\ ~isLeaf(nodes[root])
    /\ \E c \in 1..2 : ~isLeaf(nodes[nodes[root].children[c]])

\* The trie as InsertRoute(routeBits) leaves it when called in the current
\* state, and Contents() of that trie.
AfterInsert(routeBits) == InsertRoute(nodes, root, routeBits)
ContentsOf(res) == Entries(Contents(res.nodes, res.root))

\* C6: idempotence: in any reachable state, calling InsertRoute(R) twice in a
\* row leaves the trie as calling it once does.
C6_Idempotence ==
    \A r \in Routes :
        LET once == Collected(AfterInsert(r))
            twice == Collected(InsertRoute(once.nodes, once.root, r))
        IN  twice = once

\* C6 witness: a state in which the first InsertRoute(R) changes a trie of at
\* least three nodes and the second changes nothing.
C6_Witness ==
    \E r \in Routes :
        LET once == Collected(AfterInsert(r))
        IN  /\ Len(nodes) >= 3
            /\ once.nodes # nodes
            /\ Collected(InsertRoute(once.nodes, once.root, r)) = once

C8_NoOpWhenCovered ==
    LET before == ContentsSet
    IN  \A r1 \in Routes :
            (\E k \in before : IsPrefix(k, r1)) =>
                AfterInsert(r1) = Result(nodes, root, FALSE)

\* C8 witness: a stored key below the root is a proper prefix of a route, and
\* InsertRoute of that route changes nothing.
C8_Witness ==
    \E r1 \in Routes :
        /\ \E k \in ContentsSet : IsProperPrefix(k, r1)
        /\ Len(nodes) >= 3
        /\ AfterInsert(r1) = Result(nodes, root, FALSE)

\* The 2^k routes P+s of TileLen bits below the prefix P.
Tiles(P) == {t \in TileRoutes : IsPrefix(P, t)}

\* C9: tiling merge: once all 2^k routes P+s (s every k-bit string, k >= 1)
\* have been inserted into an empty trie, in any order, Contents() is exactly
\* the single key P.
C9_TilingMerge ==
    \A P \in BitSlices(0, TileLen - 1) :
        inserted = Tiles(P) => ContentsNow = <<P>>

\* C9 witness: all routes of TileLen bits are in, and they collapsed over
\* every level to the one key of no bits.
C9_Witness ==
    /\ inserted = TileRoutes
    /\ ContentsNow = << <<>> >>

\* Neither is a prefix of the other and they are not siblings.
NonAdjacent(a, b) ==
    /\ ~IsPrefix(a, b)
    /\ ~IsPrefix(b, a)
    /\ ~Siblings(a, b)

\* C10: non-adjacent routes stay distinct: after inserting into an empty trie
\* two routes of which neither is a prefix of the other and which are not
\* siblings, in either order, Contents() is exactly those two routes.
C10_NonAdjacentStayDistinct ==
    \A a, b \in inserted :
        (NonAdjacent(a, b) /\ inserted = {a, b}) =>
            (ContentsSet = {a, b} /\ Len(ContentsNow) = 2)

\* C10 witness: two routes of equal length that part at their first bit.
C10_Witness ==
    /\ inserted = {<<0, 0, 1>>, <<1, 0, 0>>}
    /\ ContentsSet = inserted

\* C11: totality: in every reachable state InsertRoute of any non-empty route
\* returns without a run-time panic: a descent always has a bit left to pick
\* the child by and finds that child non-nil, a node split off below the root
\* has a bit to pick its slot by, and both children of a split have a bit.
C11_InsertRouteTotal ==
    /\ ~panicked
    /\ \A r \in Routes : ~AfterInsert(r).panic

\* C11 witness: an insert that descends from the root and splits a node below
\* it (two nodes are allocated, the root stays) without a panic.
C11_Witness ==
    \E r \in Routes :
        LET res == AfterInsert(r)
        IN  /\ root # Nil
            /\ ~res.panic
            /\ Len(res.nodes) = Len(nodes) + 2
            /\ res.root = root

\* Contents() of a trie value, as a set.
KeysOf(t) == Entries(Contents(t.nodes, t.root))

\* C12: family isolation: a successful InsertFromString of an IPv4 address or
\* prefix leaves the IPv6 trie as it was, one of an IPv6 address or prefix
\* leaves the IPv4 trie as it was; every key of the IPv4 trie has at most 32
\* bits and is a prefix of an inserted IPv4 route, and every key of the IPv6
\* trie is a prefix of an inserted IPv6 route.
C12_FamilyIsolation ==
    /\ \A s \in Inputs :
           LET call == InsertFromString(rs, s)
           IN  call.err = "nil" =>
                   /\ s.is4 => call.rs.ipv6 = rs.ipv6
                   /\ ~s.is4 => call.rs.ipv4 = rs.ipv4
    /\ \A k \in KeysOf(rs.ipv4) :
           /\ Len(k) <= 8 * V4Bytes
           /\ \E a \in accepted : a.is4 /\ IsPrefix(k, a.bits)
    /\ \A k \in KeysOf(rs.ipv6) :
           \E a \in accepted : ~a.is4 /\ IsPrefix(k, a.bits)

\* C12 witness: both tries hold a key after successful inserts, and the IPv6
\* key is short enough to pass for an IPv4 one.
C12_Witness ==
    /\ ret = [op |-> "InsertFromString", err |-> "nil"]
    /\ KeysOf(rs.ipv4) # {}
    /\ \E k \in KeysOf(rs.ipv6) : Len(k) <= 8 * V4Bytes

\* C13: no partial insert on error: whenever InsertFromString returns an
\* error, both tries are as they were before the call.
C13_NoInsertOnError ==
    \A s \in Inputs :
        LET call == InsertFromString(rs, s)
        IN  call.err # "nil" => call.rs = rs

\* C13 witness: a call has just returned an error with a key in each trie.
C13_Witness ==
    /\ ret.op = "InsertFromString"
    /\ ret.err # "nil"
    /\ KeysOf(rs.ipv4) # {}
    /\ KeysOf(rs.ipv6) # {}

\* C14 as claimed: every node, the root included, has a label of at least one
\* bit.
C14_NonEmptyLabels ==
    \A n \in 1..Len(nodes) : Len(nodes[n].bits) >= 1

\* C14 as amended: every node other than the root has a label of at least one
\* bit; the label of the root may be empty.
C14_NonRootLabelsNonEmpty ==
    \A n \in 1..Len(nodes) : n # root => Len(nodes[n].bits) >= 1

\* C14 witness: an internal root with an empty label above nodes that all have
\* a bit, one of them internal.
C14_Witness ==
    /\ root # Nil
    /\ nodes[root].bits = <<>>
    /\ ~isLeaf(nodes[root])
    /\ \E c \in 1..2 : ~isLeaf(nodes[nodes[root].children[c]])

\* C15 as claimed: every entry of Contents() has between 1 and MaxLen bits
\* (MaxLen standing for the 128 of the longest route inserted).
C15_NoZeroLengthRoute ==
    \A k \in ContentsSet : Len(k) >= 1 /\ Len(k) <= MaxLen

\* C15 as amended: every entry of Contents() has at most MaxLen bits, and an
\* entry of no bits is stored only as the single entry of a trie whose
\* inserted routes cover every address.
C15_ZeroLengthOnlyForAll ==
    \A k \in ContentsSet :
        /\ Len(k) <= MaxLen
        /\ Len(k) = 0 =>
               /\ ContentsNow = <<k>>
               /\ \A a \in Addresses : Covers(inserted, a)

\* C15 witness: three routes merged into the one entry of no bits.
C15_Witness ==
    /\ ContentsNow = << <<>> >>
    /\ Cardinality(inserted) = 3
    /\ \A r \in inserted : Len(r) >= 1

Leaves == {n \in 1..Len(nodes) : isLeaf(nodes[n])}
Parent(n) ==
    CHOOSE p \in 1..Len(nodes) :
        /\ ~isLeaf(nodes[p])
        /\ n \in {nodes[p].children[1], nodes[p].children[2]}

RECURSIVE PathKey(_)
PathKey(n) == IF n = root THEN nodes[n].bits ELSE PathKey(Parent(n)) \o nodes[n].bits

\* A sequence of keys holds every key as often as there are leaves with it.
OnePerLeaf(contents) ==
    /\ Len(contents) = Cardinality(Leaves)
    /\ \A k \in Entries(contents) \cup {PathKey(n) : n \in Leaves} :
           Cardinality({i \in 1..Len(contents) : contents[i] = k})
               = Cardinality({n \in Leaves : PathKey(n) = k})

\* C17: a call of Contents() returns one entry per leaf and none for an
\* internal node, each entry the labels from the root down to its leaf put
\* together; on the empty trie it returns the empty sequence; and the trie is
\* after the call what it was before.
C17_ContentsLeaves ==
    [][ContentsStep =>
          /\ ~panicked'
          /\ ret'.op = "Contents"
          /\ OnePerLeaf(ret'.contents)
          /\ (root = Nil => ret'.contents = <<>>)
          /\ root' = root
          /\ nodes' = nodes]_vars

\* C17 witness: Contents() has returned three entries from a trie with an
\* internal node below the root.
C17_Witness ==
    /\ ret.op = "Contents"
    /\ Len(ret.contents) = 3
    /\ Cardinality(Leaves) = 3
    /\ \E n \in 1..Len(nodes) : n # root /\ ~isLeaf(nodes[n])

\* Lexicographic bit order: a comes before b when it is a proper prefix of b
\* or has 0 where the two first differ.
LexLess(a, b) ==
    \/ IsProperPrefix(a, b)
    \/ \E i \in 1..min(Len(a), Len(b)) :
           /\ a[i] < b[i]
           /\ \A j \in 1..(i - 1) : a[j] = b[j]

StrictlyIncreasing(contents) ==
    \A i, j \in 1..Len(contents) : i < j => LexLess(contents[i], contents[j])

\* C18: what Contents() returns is in strictly increasing lexicographic bit
\* order, in the state of the call and in every other reachable state, so
\* the order of the entries is fixed by the set of stored keys.
C18_SortedOutput ==
    /\ ret.op = "Contents" => StrictlyIncreasing(ret.contents)
    /\ StrictlyIncreasing(ContentsNow)

\* C18 witness: Contents() has returned the keys of a trie whose root has an
\* internal node in slot 0 and a leaf in slot 1.
C18_Witness ==
    /\ ret.op = "Contents"
    /\ Len(ret.contents) = 3
    /\ root # Nil
    /\ ~isLeaf(nodes[root])
    /\ ~isLeaf(nodes[nodes[root].children[1]])
    /\ isLeaf(nodes[nodes[root].children[2]])

\* C19: child-slot invariant: the child in slot b of every internal node
\* exists and has a label of at least one bit that starts with b.
C19_ChildSlot ==
    \A n \in 1..Len(nodes) :
        ~isLeaf(nodes[n]) =>
            \A b \in Bit :
                LET c == nodes[n].children[b + 1]
                IN  /\ c # Nil
                    /\ Len(nodes[c].bits) >= 1
                    /\ nodes[c].bits[1] = b

\* C19 witness: a split below the root has hooked a new internal node into
\* slot 1 of the root.
C19_Witness ==
    /\ root # Nil
    /\ ~isLeaf(nodes[root])
    /\ nodes[root].children[2] # Nil
    /\ ~isLeaf(nodes[nodes[root].children[2]])

====
